---------------------------- MODULE Spec2Model ----------------------------
(***************************************************************************)
(* A model of data_multiplus.py: the MK3 frame codec (makeMK3Command,      *)
(* readResult), the transport (sendMK3Command), the handshake (initMK3),   *)
(* the telemetry reader (readMultiplus) and the publishing main loop.      *)
(*                                                                         *)
(* Bytes are naturals 0..255.  Python's 0-based data[i] is data[i+1] here. *)
(* The values a cycle computes are kept exact: a float is a pair <<n, d>>  *)
(* standing for n/d, an int is a pair with d = 1.                          *)
(***************************************************************************)
EXTENDS Integers, Sequences, FiniteSets, TLC

\* ------------------------------------------------------------ bounds
\* longest command payload the codec is fed
MaxLen == 2
\* longest raw byte stream readResult is fed
MaxStream == 4
\* version broadcasts the device sends after one written command
MaxBroadcast == 2
\* polling cycles the main loop is followed for
MaxCycles == 2

\* ------------------------------------------------- program constants
\* second byte of every command frame (0xFF)
FrameMarker == 255
\* 0x56, 'V': second byte of a version broadcast
VersionByte == 86
\* range(0, 3): address-assignment attempts
MaxAttempts == 3
\* 0x4000: threshold of scalefunc
ScaleThreshold == 16384
\* 0x8000: the reciprocal branch computes 1.0/(0x8000 - s)
ScaleBase == 32768
\* 0x80: sign test of the DC current's third byte
SignByte == 128

\* ------------------------------------------------------------ helpers
RECURSIVE SumSeq(_)
SumSeq(s) == IF s = << >> THEN 0 ELSE Head(s) + SumSeq(Tail(s))

IsByte(x) == x \in 0..255

Abs(x) == IF x < 0 THEN -x ELSE x

Min(a, b) == IF a < b THEN a ELSE b

\* s[a..b] for a Python slice data[a-1:b]: clipped to the sequence, never an error
Slice(s, a, b) == SubSeq(s, a, Min(b, Len(s)))

\* ------------------------------------------------------- the commands
\* bytearray.fromhex of the literals the program sends
CmdVersion == <<86>>
CmdAddress == <<65, 1, 0>>
CmdScaleUinv == <<87, 54, 2, 0>>
CmdScaleIinv == <<87, 54, 3, 0>>
CmdScaleUbat == <<87, 54, 4, 0>>
CmdScaleIbat == <<87, 54, 5, 0>>
CmdFrameAC == <<70, 1>>
CmdFrameDC == <<70, 0>>

\* ---------------------------------------------------------- the codec
\* checksum = 256 - sum(buf) % 256
Checksum(buf) == 256 - (SumSeq(buf) % 256)

\* buf = [len(command) + 1, 0xFF] + command + [checksum]
makeMK3Command(command) ==
    LET buf == <<Len(command) + 1, FrameMarker>> \o command
    IN  Append(buf, Checksum(buf))

\* serial's write turns the list into bytes: an element outside 0..255 is a ValueError
Writable(c) == \A k \in 1..Len(c) : IsByte(c[k])

\* mk3.read(n): at most n bytes, fewer when the timeout ends the wait
ReadBytes(buf, n) == SubSeq(buf, 1, Min(n, Len(buf)))
RestBytes(buf, n) == SubSeq(buf, Min(n, Len(buf)) + 1, Len(buf))

\* int.from_bytes(l, "big") of the 0 or 1 bytes read
LengthOf(bs) == IF bs = << >> THEN 0 ELSE bs[1]

\* the number of bytes readResult asks for after the length byte
RestCount(len) == len + 1

\* sum([x for x in data]) % 256 != 0 raises, data being the bytes read plus l
ChecksumOk_lowNibble(data) == SumSeq(data) % 16 = 0
ChecksumOk_noLength(data) == SumSeq(SubSeq(data, 1, Len(data) - 1)) % 256 = 0
ChecksumOk(data) == SumSeq(data) % 256 = 0

\* the commands readMultiplus sends, and no frame heard for any of them
CycleCmds == {CmdScaleUinv, CmdFrameAC, CmdScaleIinv, CmdFrameDC, CmdScaleUbat,
              CmdScaleIbat}
NoneHeard == [cmd \in CycleCmds |-> << >>]

\* the calibration queries: the commands whose late replies are followed
ScaleCmds == {CmdScaleUinv, CmdScaleIinv, CmdScaleUbat, CmdScaleIbat}

\* ------------------------------------------------------------- state
VARIABLES
    pc,         \* where the program is
    phase,      \* "codec": the codec alone; "init": initMK3; "cycle": the main loop
    mk3,        \* TRUE when serial.Serial(...) succeeded and the name mk3 is bound
    rx,         \* the serial input buffer: bytes received and not yet read
    c,          \* sendMK3Command's c: the frame built by makeMK3Command and written
    command,    \* the argument of makeMK3Command / sendMK3Command
    l,          \* readResult's l
    data,       \* sendMK3Command's data: the last frame readResult returned
    exc,        \* the exception being raised, "none" when there is none
    reads,      \* history: <<n, bytes>> of each mk3.read(n) of the current readResult
    got,        \* history: the frames readResult returned in the current sendMK3Command
    fed,        \* codec only: how the input buffer was filled
    owed,       \* device: the command it has still to answer, << >> when none
    nBcast,     \* device: version broadcasts sent since the last write
    lastOp,     \* history: the program's last operation on the link
    i,          \* initMK3's loop variable
    nAssign,    \* history: assign-address commands written
    ip,         \* readMultiplus: index of the next statement
    loc,        \* readMultiplus: its local variables
    tmp,        \* lines of /ramdisk/VICTRON_MULTIPLUS.prom.tmp
    published,  \* lines of /ramdisk/VICTRON_MULTIPLUS.prom
    lastGood,   \* history: the sample of the last cycle readMultiplus completed
    cycle,      \* polling cycles started
    heard,      \* history: per command, the frame sendMK3Command returned this cycle
    seen,       \* a reader of /ramdisk/VICTRON_MULTIPLUS.prom: the lines it last read
    stale       \* device: the first query left unanswered, its reply still to come

vars == <<pc, phase, mk3, rx, c, command, l, data, exc, reads, got, fed,
          owed, nBcast, lastOp, i, nAssign, ip, loc, tmp, published, lastGood, cycle,
          heard, seen, stale>>

fileVars == <<tmp, published, lastGood>>
auxVars == <<heard, seen, stale>>

\* where a raised exception is handled: the codec alone has no handler, initMK3
\* has the try of its loop, a cycle has readMultiplus's try and the main loop's
Unwind(ph) ==
    CASE ph = "init" -> "initExcept"
      [] ph = "cycle" -> "cycleExcept"
      [] OTHER -> "raised"

\* ------------------------------------------------------- sendMK3Command
\* c = makeMK3Command(command); mk3.write(c)
SendWrite ==
    /\ pc = "send"
    /\ c' = makeMK3Command(command)
    /\ IF Writable(c')
       THEN /\ lastOp' = "write"
            /\ owed' = command
            /\ stale' = IF owed \in ScaleCmds /\ stale = << >> THEN owed ELSE stale
            /\ nBcast' = 0
            /\ nAssign' = IF command = CmdAddress THEN nAssign + 1 ELSE nAssign
            /\ pc' = "readLen"
            /\ exc' = exc
       ELSE /\ exc' = "ValueError"
            /\ pc' = Unwind(phase)
            /\ UNCHANGED <<lastOp, owed, nBcast, nAssign, stale>>
    /\ data' = << >>
    /\ got' = << >>
    /\ reads' = << >>
    /\ UNCHANGED <<phase, mk3, rx, command, l, fed, i, ip, loc, cycle>>
    /\ UNCHANGED fileVars
    /\ UNCHANGED <<heard, seen>>

\* ------------------------------------------------------------ readResult
\* l = mk3.read(1); l = int.from_bytes(l, "big")
ReadLen ==
    /\ pc = "readLen"
    /\ LET bs == ReadBytes(rx, 1)
       IN  /\ l' = LengthOf(bs)
           /\ rx' = RestBytes(rx, 1)
           /\ reads' = << <<1, bs>> >>
    /\ lastOp' = "read"
    /\ pc' = "readRest"
    /\ UNCHANGED <<phase, mk3, c, command, data, exc, got, fed, owed, nBcast, i,
                   nAssign, ip, loc, cycle>>
    /\ UNCHANGED fileVars
    /\ UNCHANGED auxVars

\* data = bytearray(mk3.read(l + 1)); data.append(l); the checksum test; return data
ReadRest ==
    /\ pc = "readRest"
    /\ LET n  == RestCount(l)
           bs == ReadBytes(rx, n)
           d  == Append(bs, l)
       IN  /\ rx' = RestBytes(rx, n)
           /\ reads' = Append(reads, <<n, bs>>)
           /\ IF ChecksumOk(d)
              THEN /\ data' = d
                   /\ got' = Append(got, d)
                   /\ pc' = "readDone"
                   /\ exc' = exc
              ELSE /\ exc' = "Checksum failed"
                   /\ pc' = Unwind(phase)
                   /\ UNCHANGED <<data, got>>
    /\ lastOp' = "read"
    /\ UNCHANGED <<phase, mk3, c, command, l, fed, owed, nBcast, i, nAssign, ip,
                   loc, cycle>>
    /\ UNCHANGED fileVars
    /\ UNCHANGED auxVars

\* ------------------------------------------------- the codec on its own
\* bytes of command payloads and of raw streams the codec is checked on
PayloadBytes == {0, 1, 86, 255}
StreamBytes == {0, 1, 255}

RECURSIVE SeqsUpTo(_, _)
SeqsUpTo(S, n) ==
    IF n = 0 THEN {<< >>}
    ELSE LET shorter == SeqsUpTo(S, n - 1)
         IN  shorter \cup {Append(s, x) : s \in shorter, x \in S}

NoLocals == [scale |-> 0, offset |-> 0, uinv |-> 0, iinv |-> 0, bf |-> 0,
             invf |-> 0, AC_voltage |-> <<0, 1>>, AC_current |-> <<0, 1>>,
             DC_voltage |-> <<0, 1>>, DC_current |-> <<0, 1>>]

InitCommon ==
    /\ c = << >> /\ l = 0 /\ data = << >> /\ exc = "none"
    /\ reads = << >> /\ got = << >> /\ owed = << >> /\ nBcast = 0
    /\ lastOp = "none" /\ i = 0 /\ nAssign = 0 /\ ip = 1 /\ loc = NoLocals
    /\ tmp = << >> /\ published = << >> /\ lastGood = << >> /\ cycle = 0
    /\ heard = NoneHeard /\ seen = << >> /\ stale = << >>

\* the codec's inputs: a command payload to encode and send, or a raw byte
\* stream already waiting in the input buffer when readResult is called
InitCodec ==
    /\ InitCommon
    /\ phase = "codec" /\ mk3 = TRUE
    /\ \/ /\ pc = "send"
          /\ command \in SeqsUpTo(PayloadBytes, MaxLen)
          /\ rx = << >> /\ fed = "none"
       \/ /\ pc = "readLen"
          /\ command = << >>
          /\ rx \in SeqsUpTo(StreamBytes, MaxStream)
          /\ fed = "stream"

\* the link loops back: the bytes written arrive, all of them or, when the
\* line goes silent, only the first k
LoopbackDeliver ==
    /\ pc = "readLen" /\ phase = "codec" /\ fed = "none"
    /\ \E k \in 0..Len(c) :
          /\ rx' = SubSeq(c, 1, k)
          /\ fed' = IF k = Len(c) THEN "loopback" ELSE "truncated"
    /\ UNCHANGED <<pc, phase, mk3, c, command, l, data, exc, reads, got,
                   owed, nBcast, lastOp, i, nAssign, ip, loc, cycle>>
    /\ UNCHANGED fileVars
    /\ UNCHANGED auxVars

\* the link loops back with one byte of the written frame replaced by another
CorruptDeliver ==
    /\ pc = "readLen" /\ phase = "codec" /\ fed = "none"
    /\ \E k \in 1..Len(c) :
          \E b \in (0..255) \ {c[k]} : rx' = [c EXCEPT ![k] = b]
    /\ fed' = "corrupt"
    /\ UNCHANGED <<pc, phase, mk3, c, command, l, data, exc, reads, got,
                   owed, nBcast, lastOp, i, nAssign, ip, loc, cycle>>
    /\ UNCHANGED fileVars
    /\ UNCHANGED auxVars

NextCodec ==
    SendWrite \/ LoopbackDeliver \/ CorruptDeliver \/ ReadLen \/ ReadRest

SpecCodec == InitCodec /\ [][NextCodec]_vars

\* --------------------------------------------------- decoding helpers
\* struct's '<H' and '<h' of two bytes, '<i' of four
U16(lo, hi) == lo + 256 * hi
I16(lo, hi) == IF U16(lo, hi) >= 32768 THEN U16(lo, hi) - 65536 ELSE U16(lo, hi)
I32(b0, b1, b2, b3) ==
    LET u == b0 + 256 * b1 + 65536 * b2
    IN  IF b3 >= 128 THEN u + 16777216 * (b3 - 256) ELSE u + 16777216 * b3

\* data[8:11] + (00 if data[10] < 0x80 else FF), unpacked as '<i'
DCCurrentRaw_unsigned(b0, b1, b2) == I32(b0, b1, b2, 0)
DCCurrentRaw(b0, b1, b2) == I32(b0, b1, b2, IF b2 < SignByte THEN 0 ELSE 255)

\* scalefunc divides by 0x8000 - s: a ZeroDivisionError when that is 0
ScaleRaises(factor) == Abs(factor) >= ScaleThreshold /\ ScaleBase - Abs(factor) = 0

\* scalefunc(factor), as the exact fraction <<n, d>>
scalefunc_signed(factor) ==
    LET s == factor
    IN  IF s >= ScaleThreshold THEN <<1, ScaleBase - s>> ELSE <<s, 1>>
scalefunc(factor) ==
    LET s == Abs(factor)
    IN  IF s >= ScaleThreshold THEN <<1, ScaleBase - s>> ELSE <<s, 1>>

\* (raw + offset) * scalefunc(scale)
Scaled_noOffset(raw, offset, scale) ==
    LET f == scalefunc(scale) IN <<raw * f[1], f[2]>>
Scaled(raw, offset, scale) ==
    LET f == scalefunc(scale) IN <<(raw + offset) * f[1], f[2]>>

\* the product of two values; a value times an int k is Times(v, <<k, 1>>)
Times(a, b) == <<a[1] * b[1], a[2] * b[2]>>

\* the three lines readMultiplus prints: name and value
Line1(v, a) == <<"batVolts", v>>
Line2(v, a) == <<"batAmps", a>>
Line3(v, a) == <<"outputW", Times(v, a)>>

\* --------------------------------------------------------- the device
\* a frame as the device sends it: length, body, checksum
DevFrame(body) ==
    LET n == Len(body)
    IN  <<n>> \o body \o <<(256 - ((n + SumSeq(body)) % 256)) % 256>>

LoByte(x) == (IF x < 0 THEN x + 65536 ELSE x) % 256
HiByte(x) == (IF x < 0 THEN x + 65536 ELSE x) \div 256

\* the periodic version broadcast: 0xFF, 'V', version bytes
VersionFrame == DevFrame(<<255, 86, 36, 219, 17, 0, 66>>)

\* the reply to 'A'
AddressFrame == DevFrame(<<255, 65, 1, 0>>)

\* the reply to 'W': 0xFF, 'W', 0x8E, scale (int16), 0x8F, offset (int16)
ScaleFrame(scale, offset) ==
    DevFrame(<<255, 87, 142, LoByte(scale), HiByte(scale), 143,
               LoByte(offset), HiByte(offset)>>)

\* the AC info frame: 0x20, bf, invf, .., mains U and I, inverter U and I, period
ACFrame(bf, invf, uinv, iinv) ==
    DevFrame(<<32, bf, invf, 0, 0, 8, 230, 0, 2, 0, LoByte(uinv), HiByte(uinv),
               LoByte(iinv), HiByte(iinv), 200>>)

\* the DC info frame: 0x20, .., 0x0C, U (uint16), I used (3 bytes), I charged, period
DCFrame(u, i0, i1, i2) ==
    DevFrame(<<32, 0, 0, 0, 0, 12, LoByte(u), HiByte(u), i0, i1, i2, 0, 0, 0, 200>>)

\* what the device may answer to a command: the values it may hold
Replies(cmd) ==
    CASE cmd = CmdVersion -> {VersionFrame}
      [] cmd = CmdAddress -> {AddressFrame}
      [] cmd = CmdScaleUinv -> {ScaleFrame(2, 1)}
      [] cmd = CmdScaleIinv -> {ScaleFrame(3, -1)}
      [] cmd = CmdScaleUbat -> {ScaleFrame(16, 5), ScaleFrame(32668, 0)}
      [] cmd = CmdScaleIbat -> {ScaleFrame(-4, 2), ScaleFrame(-32768, 0)}
      [] cmd = CmdFrameAC -> {ACFrame(1, 1, 230, -3)}
      [] cmd = CmdFrameDC -> {DCFrame(100, 10, 0, 0), DCFrame(100, 255, 255, 255)}
      [] OTHER -> {}

\* a frame damaged on the line: its last byte is off by one
Damaged(f) == [f EXCEPT ![Len(f)] = (f[Len(f)] + 1) % 256]

\* the device answers the command it owes a reply to: the reply arrives whole,
\* damaged, or cut short when the line goes silent
DeviceReply ==
    /\ pc \in {"initSleep", "readLen", "readRest"}
    /\ phase \in {"init", "cycle"}
    /\ owed # << >>
    /\ \E f \in Replies(owed) :
          \E g \in {f, Damaged(f), SubSeq(f, 1, 3)} : rx' = rx \o g
    /\ owed' = << >>
    /\ UNCHANGED <<pc, phase, mk3, c, command, l, data, exc, reads, got, fed,
                   nBcast, lastOp, i, nAssign, ip, loc, cycle>>
    /\ UNCHANGED fileVars
    /\ UNCHANGED auxVars

\* the device sends its periodic version broadcast
DeviceBroadcast ==
    /\ pc \in {"initSleep", "readLen", "readRest"}
    /\ phase \in {"init", "cycle"}
    /\ nBcast < MaxBroadcast
    /\ rx' = rx \o VersionFrame
    /\ nBcast' = nBcast + 1
    /\ UNCHANGED <<pc, phase, mk3, c, command, l, data, exc, reads, got, fed,
                   owed, lastOp, i, nAssign, ip, loc, cycle>>
    /\ UNCHANGED fileVars
    /\ UNCHANGED auxVars

\* the late reply has arrived: no further late reply is followed
LateSpent == <<0>>

\* the reply to an earlier query, left unanswered when its call ended, arrives
\* when a later call starts to read
DeviceLateReply ==
    /\ pc = "readLen" /\ rx = << >>
    /\ phase = "cycle"
    /\ stale \in ScaleCmds
    /\ \E f \in Replies(stale) : rx' = rx \o f
    /\ stale' = LateSpent
    /\ UNCHANGED <<pc, phase, mk3, c, command, l, data, exc, reads, got, fed, owed,
                   nBcast, lastOp, i, nAssign, ip, loc, cycle, heard, seen>>
    /\ UNCHANGED fileVars

\* ------------------------------------------- sendMK3Command, its loop
\* the loop goes on while data[0] == 0xFF and data[1] == 0x56
Discards_onlyMarker(d) == d[1] = FrameMarker
Discards(d) == d[1] = FrameMarker /\ d[2] = VersionByte

\* data[1] is read only when data[0] == 0xFF: an IndexError on a 1-byte frame
CheckRaises(d) == d[1] = FrameMarker /\ Len(d) < 2

\* if data[0] != 0xFF or data[1] != 0x56: break; return data
SendCheck_noBreak ==
    /\ pc = "readDone"
    /\ pc' = "readLen"
    /\ l' = 0
    /\ got' = << >>
    /\ UNCHANGED <<phase, mk3, rx, c, command, data, exc, reads, fed, owed, nBcast,
                   lastOp, i, nAssign, ip, loc, cycle>>
    /\ UNCHANGED fileVars
    /\ UNCHANGED auxVars
SendCheck ==
    /\ pc = "readDone"
    /\ IF CheckRaises(data)
       THEN /\ exc' = "IndexError"
            /\ pc' = Unwind(phase)
            /\ UNCHANGED <<c, command, heard>>
       ELSE IF Discards(data)
       THEN /\ pc' = "readLen"
            /\ UNCHANGED <<exc, c, command, heard>>
       ELSE /\ pc' = IF phase = "init" THEN "initElse" ELSE "stmt"
            /\ c' = << >>
            /\ command' = << >>
            /\ heard' = IF phase = "cycle"
                        THEN [heard EXCEPT ![command] = data] ELSE heard
            /\ exc' = exc
    /\ l' = 0
    /\ UNCHANGED <<phase, mk3, rx, data, reads, got, fed, owed, nBcast, lastOp, i,
                   nAssign, ip, loc, cycle>>
    /\ UNCHANGED fileVars
    /\ UNCHANGED <<seen, stale>>

\* ----------------------------------------------------- start and initMK3
\* try: mk3 = serial.Serial('/dev/ttyUSB0') ... except: print(...)
OpenSerial ==
    /\ pc = "open"
    /\ mk3' \in BOOLEAN
    /\ pc' = "initWrite"
    /\ UNCHANGED <<phase, rx, c, command, l, data, exc, reads, got, fed, owed, nBcast,
                   lastOp, i, nAssign, ip, loc, cycle>>
    /\ UNCHANGED fileVars
    /\ UNCHANGED auxVars

\* mk3.write(makeMK3Command('56')); with mk3 unbound this is a NameError, which
\* nothing catches
InitWrite ==
    /\ pc = "initWrite"
    /\ IF mk3
       THEN /\ c' = makeMK3Command(CmdVersion)
            /\ lastOp' = "write"
            /\ owed' = CmdVersion
            /\ nBcast' = 0
            /\ pc' = "initSleep"
            /\ exc' = exc
       ELSE /\ exc' = "NameError"
            /\ pc' = "crashed"
            /\ UNCHANGED <<c, lastOp, owed, nBcast>>
    /\ UNCHANGED <<phase, mk3, rx, command, l, data, reads, got, fed, i, nAssign,
                   ip, loc, cycle>>
    /\ UNCHANGED fileVars
    /\ UNCHANGED auxVars

\* time.sleep(0.5); mk3.reset_input_buffer(); then the for loop is entered
InitReset ==
    /\ pc = "initSleep"
    /\ rx' = << >>
    /\ lastOp' = "reset"
    /\ i' = 0
    /\ pc' = "initLoop"
    /\ UNCHANGED <<phase, mk3, c, command, l, data, exc, reads, got, fed, owed, nBcast,
                   nAssign, ip, loc, cycle>>
    /\ UNCHANGED fileVars
    /\ UNCHANGED auxVars

\* for i in range(0, 3): try: sendMK3Command('41 01 00'); the loop's end returns
InitAttempt ==
    /\ pc = "initLoop"
    /\ IF i < MaxAttempts
       THEN /\ command' = CmdAddress
            /\ pc' = "send"
       ELSE /\ pc' = "loopTop"
            /\ UNCHANGED command
    /\ UNCHANGED <<phase, mk3, rx, c, l, data, exc, reads, got, fed, owed, nBcast,
                   lastOp, i, nAssign, ip, loc, cycle>>
    /\ UNCHANGED fileVars
    /\ UNCHANGED auxVars

\* "import struct" and "from struct import unpack" bind no name struct_error
StructErrorBound == FALSE

\* the exception classes "except (ValueError, struct_error)" names
Caught == {"ValueError", "struct.error"}

\* except (ValueError, struct_error): pass.  The tuple is evaluated when an
\* exception reaches the clause: an unbound struct_error is a NameError, which
\* leaves initMK3 and ends the program, as does an exception the clause lets by
InitExcept ==
    /\ pc = "initExcept"
    /\ IF ~StructErrorBound
       THEN /\ exc' = "NameError"
            /\ pc' = "crashed"
            /\ i' = i
       ELSE IF exc \in Caught
       THEN /\ exc' = "none"
            /\ pc' = "initLoop"
            /\ i' = i + 1
       ELSE /\ exc' = exc
            /\ pc' = "crashed"
            /\ i' = i
    /\ UNCHANGED <<phase, mk3, rx, c, command, l, data, reads, got, fed, owed, nBcast,
                   lastOp, nAssign, ip, loc, cycle>>
    /\ UNCHANGED fileVars
    /\ UNCHANGED auxVars

\* else: break; initMK3 returns
InitElse ==
    /\ pc = "initElse"
    /\ pc' = "loopTop"
    /\ data' = << >>
    /\ got' = << >>
    /\ reads' = << >>
    /\ UNCHANGED <<phase, mk3, rx, c, command, l, exc, fed, owed, nBcast, lastOp, i,
                   nAssign, ip, loc, cycle>>
    /\ UNCHANGED fileVars
    /\ UNCHANGED auxVars

\* ------------------------------------------------------- readMultiplus
\* the statements of readMultiplus's try block, in order: <<operation, command>>
readMultiplusBody_noReset ==
    << <<"reset", << >> >>, <<"send", CmdScaleUinv>>, <<"unpackScale", << >> >>,
       <<"reset", << >> >>, <<"send", CmdFrameAC>>, <<"unpackAC", << >> >>,
       <<"calcACv", << >> >>,
       <<"reset", << >> >>, <<"send", CmdScaleIinv>>, <<"unpackScale", << >> >>,
       <<"calcACi", << >> >>,
       <<"reset", << >> >>, <<"send", CmdFrameDC>>, <<"unpackDC", << >> >>,
       <<"reset", << >> >>, <<"send", CmdScaleUbat>>, <<"unpackScale", << >> >>,
       <<"calcDCv", << >> >>,
       <<"send", CmdScaleIbat>>, <<"unpackScale", << >> >>,
       <<"calcDCi", << >> >>,
       <<"print1", << >> >>, <<"print2", << >> >>, <<"print3", << >> >> >>
readMultiplusBody_stalePair ==
    << <<"reset", << >> >>, <<"send", CmdScaleUinv>>, <<"unpackScale", << >> >>,
       <<"reset", << >> >>, <<"send", CmdFrameAC>>, <<"unpackAC", << >> >>,
       <<"calcACv", << >> >>,
       <<"reset", << >> >>, <<"send", CmdScaleIinv>>, <<"unpackScale", << >> >>,
       <<"calcACi", << >> >>,
       <<"reset", << >> >>, <<"send", CmdFrameDC>>, <<"unpackDC", << >> >>,
       <<"reset", << >> >>, <<"send", CmdScaleUbat>>, <<"unpackScale", << >> >>,
       <<"calcDCv", << >> >>,
       <<"reset", << >> >>, <<"send", CmdScaleIbat>>, <<"calcDCi", << >> >>,
       <<"unpackScale", << >> >>,
       <<"print1", << >> >>, <<"print2", << >> >>, <<"print3", << >> >> >>
readMultiplusBody ==
    << <<"reset", << >> >>, <<"send", CmdScaleUinv>>, <<"unpackScale", << >> >>,
       <<"reset", << >> >>, <<"send", CmdFrameAC>>, <<"unpackAC", << >> >>,
       <<"calcACv", << >> >>,
       <<"reset", << >> >>, <<"send", CmdScaleIinv>>, <<"unpackScale", << >> >>,
       <<"calcACi", << >> >>,
       <<"reset", << >> >>, <<"send", CmdFrameDC>>, <<"unpackDC", << >> >>,
       <<"reset", << >> >>, <<"send", CmdScaleUbat>>, <<"unpackScale", << >> >>,
       <<"calcDCv", << >> >>,
       <<"reset", << >> >>, <<"send", CmdScaleIbat>>, <<"unpackScale", << >> >>,
       <<"calcDCi", << >> >>,
       <<"print1", << >> >>, <<"print2", << >> >>, <<"print3", << >> >> >>

AtStmt(op) ==
    /\ pc = "stmt"
    /\ ip <= Len(readMultiplusBody)
    /\ readMultiplusBody[ip][1] = op

\* mk3.reset_input_buffer()
CycleReset ==
    /\ AtStmt("reset")
    /\ rx' = << >>
    /\ lastOp' = "reset"
    /\ ip' = ip + 1
    /\ UNCHANGED <<pc, phase, mk3, c, command, l, data, exc, reads, got, fed,
                   owed, nBcast, i, nAssign, loc, cycle>>
    /\ UNCHANGED fileVars
    /\ UNCHANGED auxVars

\* data = sendMK3Command(...): the call; the statement after it runs on return
CycleSend ==
    /\ AtStmt("send")
    /\ command' = readMultiplusBody[ip][2]
    /\ pc' = "send"
    /\ ip' = ip + 1
    /\ UNCHANGED <<phase, mk3, rx, c, l, data, exc, reads, got, fed, owed, nBcast,
                   lastOp, i, nAssign, loc, cycle>>
    /\ UNCHANGED fileVars
    /\ UNCHANGED auxVars

\* the exception a decoding or computing statement raises on data, "none" if none
StmtRaises(op, d, v) ==
    CASE op = "unpackScale" ->
            IF Len(Slice(d, 4, 8)) # 5 THEN "struct.error" ELSE "none"
      [] op = "unpackAC" ->
            IF Len(Slice(d, 11, 14)) # 4 \/ Len(Slice(d, 2, 3)) # 2
            THEN "struct.error" ELSE "none"
      [] op = "unpackDC" ->
            IF Len(Slice(d, 7, 8)) # 2 THEN "struct.error"
            ELSE IF Len(d) < 11 THEN "IndexError" ELSE "none"
      [] op \in {"calcACv", "calcACi", "calcDCv", "calcDCi"} ->
            IF ScaleRaises(v.scale) THEN "ZeroDivisionError" ELSE "none"
      [] OTHER -> "none"

\* the locals after a decoding or computing statement that does not raise
StmtEffect(op, d, v) ==
    CASE op = "unpackScale" ->
            [v EXCEPT !.scale = I16(d[4], d[5]), !.offset = I16(d[7], d[8])]
      [] op = "unpackAC" ->
            [v EXCEPT !.uinv = U16(d[11], d[12]), !.iinv = I16(d[13], d[14]),
                      !.bf = d[2], !.invf = d[3]]
      [] op = "calcACv" ->
            [v EXCEPT !.AC_voltage =
                Times(Scaled(v.uinv, v.offset, v.scale), <<v.bf, 1>>)]
      [] op = "calcACi" ->
            [v EXCEPT !.AC_current =
                Times(Scaled(v.iinv, v.offset, v.scale), <<v.invf, 1>>)]
      [] op = "unpackDC" ->
            [v EXCEPT !.DC_voltage = <<U16(d[7], d[8]), 1>>,
                      !.DC_current = <<DCCurrentRaw(d[9], d[10], d[11]), 1>>]
      [] op = "calcDCv" ->
            [v EXCEPT !.DC_voltage = Scaled(v.DC_voltage[1], v.offset, v.scale)]
      [] op = "calcDCi" ->
            [v EXCEPT !.DC_current = Scaled(v.DC_current[1], v.offset, v.scale)]
      [] OTHER -> v

\* an unpack(...) or a value computation of readMultiplus
CycleCompute ==
    /\ pc = "stmt"
    /\ ip <= Len(readMultiplusBody)
    /\ LET op == readMultiplusBody[ip][1]
           e  == StmtRaises(op, data, loc)
       IN  /\ op \in {"unpackScale", "unpackAC", "unpackDC", "calcACv", "calcACi",
                      "calcDCv", "calcDCi"}
           /\ IF e = "none"
              THEN /\ loc' = StmtEffect(op, data, loc)
                   /\ ip' = ip + 1
                   /\ UNCHANGED <<pc, exc>>
              ELSE /\ exc' = e
                   /\ pc' = "cycleExcept"
                   /\ UNCHANGED <<loc, ip>>
    /\ got' = << >>
    /\ reads' = << >>
    /\ UNCHANGED <<phase, mk3, rx, c, command, l, data, fed, owed, nBcast, lastOp, i,
                   nAssign, cycle>>
    /\ UNCHANGED fileVars
    /\ UNCHANGED auxVars

\* the line a print statement of readMultiplus writes
PrintedLine(op, v) ==
    CASE op = "print1" -> Line1(v.DC_voltage, v.DC_current)
      [] op = "print2" -> Line2(v.DC_voltage, v.DC_current)
      [] OTHER -> Line3(v.DC_voltage, v.DC_current)

\* print(dataStr, file=fileObj)
CyclePrint ==
    /\ pc = "stmt"
    /\ ip <= Len(readMultiplusBody)
    /\ readMultiplusBody[ip][1] \in {"print1", "print2", "print3"}
    /\ tmp' = Append(tmp, PrintedLine(readMultiplusBody[ip][1], loc))
    /\ ip' = ip + 1
    /\ UNCHANGED <<pc, phase, mk3, rx, c, command, l, data, exc, reads, got, fed,
                   owed, nBcast, lastOp, i, nAssign, loc, published, lastGood, cycle>>
    /\ UNCHANGED auxVars

\* ------------------------------------------------------- the main loop
\* while True: file_object = open('....prom.tmp', mode='w'); readMultiplus is called
LoopTop ==
    /\ pc = "loopTop"
    /\ cycle < MaxCycles
    /\ cycle' = cycle + 1
    /\ phase' = "cycle"
    /\ tmp' = << >>
    /\ ip' = 1
    /\ loc' = NoLocals
    /\ exc' = "none"
    /\ pc' = "stmt"
    /\ UNCHANGED <<mk3, rx, c, command, l, data, reads, got, fed, owed, nBcast, lastOp,
                   i, nAssign, published, lastGood, seen, stale>>
    /\ heard' = NoneHeard

\* what the failure branch of the main loop leaves at the published path
AfterFailure_moved(pub, t) == t
AfterFailure(pub, t) == pub

\* what /bin/mv tmp prom leaves at the published path: the file that was tmp
Renamed_appended(pub, t) == pub \o t
Renamed(pub, t) == t

\* readMultiplus returned: file_object.flush(); file_object.close(); /bin/mv tmp prom
Publish ==
    /\ pc = "stmt"
    /\ ip > Len(readMultiplusBody)
    /\ published' = Renamed(published, tmp)
    /\ tmp' = << >>
    /\ lastGood' = <<loc.DC_voltage, loc.DC_current>>
    /\ loc' = NoLocals
    /\ data' = << >>
    /\ ip' = 1
    /\ pc' = "sleep"
    /\ heard' = NoneHeard
    /\ UNCHANGED <<phase, mk3, rx, c, command, l, exc, reads, got, fed, owed,
                   nBcast, lastOp, i, nAssign, cycle, seen, stale>>

\* readMultiplus: except Exception as e: raise Exception(e); the main loop:
\* except Exception as e: print(e); file_object.close()
CycleExcept ==
    /\ pc = "cycleExcept"
    /\ published' = AfterFailure(published, tmp)
    /\ loc' = NoLocals
    /\ data' = << >>
    /\ got' = << >>
    /\ reads' = << >>
    /\ c' = << >>
    /\ command' = << >>
    /\ l' = 0
    /\ ip' = 1
    /\ pc' = "sleep"
    /\ heard' = NoneHeard
    /\ UNCHANGED <<phase, mk3, rx, exc, fed, owed, nBcast, lastOp, i, nAssign,
                   tmp, lastGood, cycle, seen, stale>>

\* time.sleep(sleepTime)
Sleep ==
    /\ pc = "sleep"
    /\ pc' = "loopTop"
    /\ UNCHANGED <<phase, mk3, rx, c, command, l, data, exc, reads, got, fed,
                   owed, nBcast, lastOp, i, nAssign, ip, loc, cycle>>
    /\ UNCHANGED fileVars
    /\ UNCHANGED auxVars

\* another process (the metrics scraper) reads the published file
Reader ==
    /\ phase \in {"init", "cycle"}
    /\ seen # published
    /\ seen' = published
    /\ UNCHANGED <<pc, phase, mk3, rx, c, command, l, data, exc, reads, got, fed,
                   owed, nBcast, lastOp, i, nAssign, ip, loc, cycle, heard, stale>>
    /\ UNCHANGED fileVars

\* ---------------------------------------------------- the whole program
Init ==
    /\ InitCommon
    /\ pc = "open" /\ phase = "init" /\ mk3 = FALSE
    /\ command = << >> /\ rx = << >> /\ fed = "none"

Next ==
    \/ OpenSerial \/ InitWrite \/ InitReset \/ InitAttempt \/ InitExcept
    \/ InitElse
    \/ SendWrite \/ ReadLen \/ ReadRest \/ SendCheck
    \/ LoopTop \/ CycleReset \/ CycleSend \/ CycleCompute \/ CyclePrint
    \/ Publish \/ CycleExcept \/ Sleep
    \/ DeviceReply \/ DeviceBroadcast \/ DeviceLateReply
    \/ Reader

Spec == Init /\ [][Next]_vars

\* every mk3.write and mk3.read returns (mk3.timeout = 1)
\* and the statements of sendMK3Command and readResult go on running
FairSpec ==
    /\ Spec
    /\ WF_vars(SendWrite) /\ WF_vars(ReadLen) /\ WF_vars(ReadRest)
    /\ WF_vars(SendCheck)

\* ------------------------------------------- the decoding steps alone
\* what readResult returns for a frame that arrives whole: the bytes after the
\* length byte, then the length
AsReturned(f) == Tail(f) \o <<f[1]>>

\* the first statement of readMultiplus with operation op
StmtAt(op) ==
    CHOOSE k \in 1..Len(readMultiplusBody) :
       /\ readMultiplusBody[k][1] = op
       /\ \A j \in 1..(k - 1) : readMultiplusBody[j][1] # op

\* the values the inputs of the decoding steps are drawn from
CalcBytes == {0, 1, 127, 128, 255}
CalcScales == {0, 1, 16, -16, 16383, -16383, 16384, -16384, 16385, -16385,
               32767, -32767, -32768}
CalcOffsets == {0, 5, -2}
CalcRaws == {0, 100, -1}

\* readMultiplus about to decode a DC frame, or about to scale a decoded value
InitCalc ==
    /\ pc = "stmt" /\ phase = "calc" /\ mk3 = TRUE
    /\ command = << >> /\ rx = << >> /\ fed = "none"
    /\ c = << >> /\ l = 0 /\ exc = "none"
    /\ reads = << >> /\ got = << >> /\ owed = << >> /\ nBcast = 0
    /\ lastOp = "none" /\ i = 0 /\ nAssign = 0
    /\ tmp = << >> /\ published = << >> /\ lastGood = << >> /\ cycle = 0
    /\ heard = NoneHeard /\ seen = << >> /\ stale = << >>
    /\ \/ /\ ip = StmtAt("unpackDC")
          /\ data \in {AsReturned(DCFrame(u, b0, b1, b2)) :
                          u \in {0, 100}, b0 \in CalcBytes, b1 \in CalcBytes,
                          b2 \in CalcBytes}
          /\ loc = NoLocals
       \/ /\ ip \in {StmtAt("calcDCv"), StmtAt("calcDCi")}
          /\ data = << >>
          /\ loc \in {[NoLocals EXCEPT !.scale = sc, !.offset = of,
                                       !.DC_voltage = <<rv, 1>>,
                                       !.DC_current = <<ri, 1>>] :
                         sc \in CalcScales, of \in CalcOffsets,
                         rv \in CalcRaws \ {-1}, ri \in CalcRaws}

NextCalc == CycleCompute

SpecCalc == InitCalc /\ [][NextCalc]_vars

\* ============================================================== claims
\* some mk3.read of the current readResult returned fewer bytes than it asked for
TimedOut == \E k \in 1..Len(reads) : Len(reads[k][2]) < reads[k][1]

\* C1: for every command payload P, the bytes makeMK3Command(P) produces can be
\* fed to readResult, which then succeeds with l = len(P) + 1 and the payload P
\* after the marker byte, the checksum verified.
C1_RoundTrip ==
    /\ exc # "ValueError"
    /\ (fed = "loopback" /\ Len(reads) = 2) =>
          /\ pc = "readDone"
          /\ l = Len(command) + 1
          /\ SubSeq(data, 2, Len(command) + 1) = command

\* C2: makeMK3Command outputs [len(payload)+1, 0xFF, payload..., checksum] with
\* checksum = (256 - (sum of the preceding bytes mod 256)) mod 256, a single
\* byte in 0..255, and all bytes of the frame sum to 0 mod 256.
C2_ChecksumByte ==
    c # << >> =>
       LET n == Len(c)
           body == SubSeq(c, 1, n - 1)
       IN  /\ body = <<Len(command) + 1, 255>> \o command
           /\ c[n] = (256 - (SumSeq(body) % 256)) % 256
           /\ c[n] \in 0..255
           /\ SumSeq(c) % 256 = 0

\* C3: readResult asks for one length byte l, then for l + 1 further bytes; it
\* returns a frame exactly when (l + sum of the bytes read) mod 256 = 0 and
\* otherwise raises "Checksum failed" and returns nothing.
C3_ChecksumGate ==
    Len(reads) = 2 =>
       LET rest == reads[2][2]
           ok == (l + SumSeq(rest)) % 256 = 0
       IN  /\ reads[1][1] = 1
           /\ l = (IF reads[1][2] = << >> THEN 0 ELSE reads[1][2][1])
           /\ reads[2][1] = l + 1
           /\ ok => (pc = "readDone" /\ exc = "none" /\ data = rest \o <<l>>)
           /\ ~ok => (pc = "raised" /\ exc = "Checksum failed" /\ data = << >>)

\* C3's case: a frame with a payload, read in full from a raw stream, is returned
C3_Witness ==
    /\ pc = "readDone" /\ fed = "stream" /\ l >= 1 /\ ~TimedOut
    /\ data # << >>

\* C9: a readResult one of whose reads timed out (returned fewer bytes than
\* asked for) fails with a timeout error and returns no frame.
C9_TimeoutRaises ==
    (Len(reads) = 2 /\ TimedOut) => (exc = "TimeoutError" /\ pc # "readDone")

\* a version broadcast as readResult returns it: 0xFF, 0x56 after the length byte
IsBroadcast(d) == Len(d) >= 2 /\ d[1] = 255 /\ d[2] = 86

\* C4: when sendMK3Command returns, the frame it returns is the last one
\* readResult gave it and the first that is no version broadcast: every frame
\* read before it in the call was a broadcast and was discarded.
C4_DiscardsBroadcasts ==
    (pc \in {"initElse", "stmt"} /\ got # << >>) =>
       LET n == Len(got)
       IN  /\ data = got[n]
           /\ ~IsBroadcast(got[n])
           /\ \A k \in 1..(n - 1) : IsBroadcast(got[k])

\* C4's case: two broadcasts were discarded and the device's reply came back
C4_Witness ==
    /\ pc = "stmt" /\ Len(got) = 3
    /\ IsBroadcast(got[1]) /\ IsBroadcast(got[2])
    /\ data \in {Append(SubSeq(f, 2, Len(f)), f[1]) : f \in Replies(CmdScaleUbat)}

\* the three lines of the sample <<DC_voltage, DC_current>>
C5_Sample(g) ==
    << <<"batVolts", g[1]>>, <<"batAmps", g[2]>>,
       <<"outputW", <<g[1][1] * g[2][1], g[1][2] * g[2][2]>> >> >>

\* C5: a cycle in which a step raised leaves the published file as it was, and
\* the published file always holds nothing or the three lines of the sample
\* of the last cycle that succeeded.
C5_NoPartialPublish ==
    /\ [](published = << >> \/
          (lastGood # << >> /\ published = C5_Sample(lastGood)))
    /\ [][(exc # "none" \/ exc' # "none") => published' = published]_vars

\* C5's case: a cycle failed after an earlier one had published its sample
C5_Witness ==
    /\ pc = "sleep" /\ phase = "cycle" /\ exc # "none"
    /\ cycle >= 2 /\ Len(published) = 3

\* C6: when the address-assignment attempts fail, initMK3 sends the command
\* 3 times, never more, and then returns: a failed attempt never ends the
\* program.
C6_GivesUpAfterThree ==
    /\ nAssign <= MaxAttempts
    /\ (pc = "crashed" /\ phase = "init") => nAssign = 0
    /\ (pc = "loopTop" /\ phase = "init" /\ i = MaxAttempts) => nAssign = MaxAttempts

\* C7: an attempt that fails with a checksum failure or a decoding error is
\* followed by the next attempt while fewer than 3 were made, and after a
\* successful attempt no assign-address command is sent.
C7_RetriesOnError ==
    [][/\ (pc = "initExcept" /\ nAssign < MaxAttempts) => pc' = "initLoop"
       /\ pc = "initElse" => (pc' = "loopTop" /\ nAssign' = nAssign)]_vars

\* C8: no error ends the process: the polling loop is never left because of
\* an exception.
C8_NeverFatal == pc # "crashed"

\* C10: in a polling cycle every command is written right after a reset of the
\* input buffer: the program's last operation on the link before the write is
\* the reset.
C10_ResetBeforeWrite ==
    [][(phase = "cycle" /\ pc = "send" /\ lastOp' = "write") => lastOp = "reset"]_vars

\* C10's case: the sixth command of a cycle has just been written
C10_Witness ==
    /\ phase = "cycle" /\ pc = "readLen" /\ lastOp = "write"
    /\ command = CmdScaleIbat

\* the bytes that arrived at the current readResult: those read and those left
Received == reads[1][2] \o reads[2][2] \o rx

\* C13 as claimed: a written frame with any one byte replaced by a different
\* value makes readResult raise "Checksum failed".
C13_AnyCorruptionFails ==
    (fed = "corrupt" /\ Len(reads) = 2) =>
       (pc = "raised" /\ exc = "Checksum failed")

\* C13, amended: a written frame with one byte replaced makes readResult raise
\* "Checksum failed", unless the byte is the length byte and its new value is
\* smaller: readResult then reads a shorter frame, which may pass.
C13_CorruptionFails ==
    (fed = "corrupt" /\ Len(reads) = 2 /\ ~(Received[1] < c[1])) =>
       (pc = "raised" /\ exc = "Checksum failed" /\ data = << >>)

\* C13's case: a payload byte was replaced and readResult raised
C13_Witness ==
    /\ fed = "corrupt" /\ Len(reads) = 2 /\ pc = "raised"
    /\ Len(command) >= 1
    /\ Received[1] = c[1] /\ Received[3] # c[3]

C15_ScaleOfMagnitude ==
    [][(phase = "calc" /\ pc = "stmt" /\ ip = StmtAt("calcDCv") /\ pc' = "stmt")
       => LET s == IF loc.scale < 0 THEN 0 - loc.scale ELSE loc.scale
              f == IF s < 16384 THEN <<s, 1>> ELSE <<1, 32768 - s>>
          IN  /\ loc'.DC_voltage =
                    <<(loc.DC_voltage[1] + loc.offset) * f[1], f[2]>>
              /\ (s = 16383 => f = <<16383, 1>>)
              /\ (s = 16385 => f = <<1, 16383>>)]_vars

\* C15's case: a negative factor of magnitude 0x4001 was applied
C15_Witness ==
    /\ phase = "calc" /\ pc = "stmt" /\ ip = StmtAt("calcDCv") + 1
    /\ loc.scale = -16385 /\ loc.offset = 5
    /\ loc.DC_voltage = <<105, 16383>>

\* C18 as claimed: no calibration response makes scalefunc divide by zero.
C18_NoZeroDivision == exc # "ZeroDivisionError"

\* C12 as claimed: sendMK3Command writes its command once, and a checksum or
\* timeout failure while reading a response frame ends the call with the
\* failure: the call never returns a frame one of whose reads timed out.
C12_FailureEndsCall ==
    /\ (pc \in {"initElse", "stmt"} /\ Len(reads) = 2) => ~TimedOut
    /\ (exc = "Checksum failed") => pc \notin {"readDone", "readLen", "readRest"}

\* sendMK3Command is running: at its write, in readResult, or at its loop test
InSend == pc \in {"send", "readLen", "readRest", "readDone"}

\* C19: every call of sendMK3Command ends, the device emitting finitely many
\* broadcasts: the loop does not spin forever, not even on a silent link.
C19_CallEnds == (pc = "send") ~> ~InSend

\* C19's case: a call ended on a link gone silent after a broadcast
C19_Witness ==
    /\ ~InSend /\ pc \in {"initElse", "stmt"}
    /\ Len(got) >= 2 /\ IsBroadcast(got[1])
    /\ data = <<0>> /\ TimedOut

\* readMultiplus has run all its statements and is about to return
BodyDone == pc = "stmt" /\ phase = "cycle" /\ ip > Len(readMultiplusBody)

\* C11: the published path changes only by the rename that ends a cycle all of
\* whose steps succeeded, and then to the whole temporary file of that cycle,
\* three lines written; a reader of the published path sees no file or the
\* three lines of one sample, never fewer and never lines of two cycles.
C11_ReaderSeesWholeSample ==
    /\ [](seen = << >> \/
          (/\ Len(seen) = 3
           /\ seen[1][1] = "batVolts" /\ seen[2][1] = "batAmps"
           /\ seen[3] = <<"outputW", <<seen[1][2][1] * seen[2][2][1],
                                       seen[1][2][2] * seen[2][2][2]>> >>))
    /\ [][published' # published =>
             (/\ BodyDone /\ exc = "none"
              /\ Len(tmp) = 3 /\ published' = tmp /\ tmp' = << >>)]_vars

\* C11's case: a reader holds the whole sample of the first cycle while the
\* second cycle has written two lines of its temporary file
C11_Witness ==
    /\ Len(seen) = 3 /\ seen = published
    /\ cycle >= 2 /\ Len(tmp) = 2

\* the value a calibration reply frame gives a raw reading: the reading plus
\* the frame's offset, times the scale of the frame's factor
ExpInt16(lo, hi) ==
    LET u == lo + 256 * hi IN IF u >= 32768 THEN u - 65536 ELSE u
ExpScale(factor) ==
    LET s == IF factor < 0 THEN 0 - factor ELSE factor
    IN  IF s < 16384 THEN <<s, 1>> ELSE <<1, 32768 - s>>
ExpCalibrated(raw, frame) ==
    LET f == ExpScale(ExpInt16(frame[4], frame[5]))
    IN  <<(raw + ExpInt16(frame[7], frame[8])) * f[1], f[2]>>
ExpInt24(b0, b1, b2) ==
    LET u == b0 + 256 * b1 + 65536 * b2 IN IF b2 < 128 THEN u ELSE u - 16777216

\* C16: the published DC voltage is (raw + offset) * scale(factor) with the
\* battery-voltage calibration, the DC current likewise with the battery-current
\* calibration, and the published power is their product; a factor 0x0010 with
\* offset 5 and raw 100 gives 1680.
C16_PublishedValues ==
    [][(BodyDone /\ pc' = "sleep") =>
         LET dc == heard[CmdFrameDC]
             v  == ExpCalibrated(dc[7] + 256 * dc[8], heard[CmdScaleUbat])
             a  == ExpCalibrated(ExpInt24(dc[9], dc[10], dc[11]),
                                 heard[CmdScaleIbat])
         IN  /\ published' = << <<"batVolts", v>>, <<"batAmps", a>>,
                                <<"outputW", <<v[1] * a[1], v[2] * a[2]>> >> >>
             /\ (/\ dc[7] + 256 * dc[8] = 100
                 /\ heard[CmdScaleUbat] = AsReturned(ScaleFrame(16, 5)))
                => v = <<1680, 1>>]_vars

\* C16's case: raw 100 with factor 0x0010 and offset 5 was published as 1680
C16_Witness ==
    /\ pc = "sleep" /\ exc = "none" /\ Len(published) = 3
    /\ published[1] = <<"batVolts", <<1680, 1>> >>
    /\ published[2][2][1] # 0

\* C17: each of the four values is computed with the calibration pair fetched
\* for its own channel in the same cycle: AC voltage with sub-index 02's, AC
\* current with 03's, DC voltage with 04's, DC current with 05's.
C17_OwnCalibration ==
    BodyDone =>
        LET ac == heard[CmdFrameAC]
            dc == heard[CmdFrameDC]
            acv == ExpCalibrated(ac[11] + 256 * ac[12], heard[CmdScaleUinv])
            aci == ExpCalibrated(ExpInt16(ac[13], ac[14]), heard[CmdScaleIinv])
        IN  /\ loc.AC_voltage = <<acv[1] * ac[2], acv[2]>>
            /\ loc.AC_current = <<aci[1] * ac[3], aci[2]>>
            /\ loc.DC_voltage =
                  ExpCalibrated(dc[7] + 256 * dc[8], heard[CmdScaleUbat])
            /\ loc.DC_current =
                  ExpCalibrated(ExpInt24(dc[9], dc[10], dc[11]),
                                heard[CmdScaleIbat])

\* C17's case: a second cycle ends with a DC voltage other than the first's
C17_Witness ==
    /\ BodyDone /\ cycle >= 2
    /\ lastGood # << >> /\ lastGood[1] # loc.DC_voltage
    /\ heard[CmdScaleUbat] # heard[CmdScaleIbat]

\* C20 as claimed: a frame sendMK3Command returns is the reply to the command
\* written in that call, never the reply to another command.
C20_ReplyToOwnCommand ==
    \A cmd \in CycleCmds :
       \A other \in CycleCmds \ {cmd} :
          heard[cmd] \notin {AsReturned(f) : f \in Replies(other)}

=============================================================================
